---- MODULE Spec2Model ----
(***************************************************************************)
(* Model of the rebalancing engine of binance-dynamic-savings-bot:         *)
(* SavingsEvaluation (savings_evaluation.py), FailureHandler               *)
(* (failure_handler.py), AssetsDataframe (assets_dataframe.py), Order      *)
(* (order.py) and the exchange calls of BinanceClient (binance_client.py). *)
(*                                                                         *)
(* Amounts (balances, projections, transfer quantities) are integers in    *)
(* tenths of a unit: 25 stands for 2.5.  round(x, p) and "%.pf" keep p     *)
(* decimal digits, so rounding happens for p = 0 and ties (x.5) occur.     *)
(***************************************************************************)
EXTENDS Integers, Sequences, FiniteSets, TLC

VARIABLES
    spot,       \* exchange: free spot balance per asset (get_asset_balance "free")
    savings,    \* exchange: flexible savings freeAmount per asset
    canPurchase,\* exchange: product canPurchase /\ status = PURCHASING, per asset
    canRedeem,  \* exchange: product canRedeem /\ status = PURCHASING, per asset
    orders,     \* exchange: order history per symbol (get_all_orders)
    table,      \* AssetsDataframe.df: symbol -> [next_so, quote_asset]
    failures,   \* SavingsEvaluation.rebalance_failures
    mutex,      \* SavingsEvaluation.rebalance_mutex: the semaphore's permit count
    dryRun,     \* SavingsEvaluation.dry_run
    pc,         \* per thread: position in its code
    loc,        \* per thread: local variables of the running call
    notes,      \* per thread: messages enqueued by the running call / tick
    calls,      \* per thread: subscribe/redeem calls made by the running call
    prev,       \* per thread: calls and deltas of the thread's previous call
    mon,        \* monitor_failures: the tick's iterator and can_rebalance
    keepHistory, \* whether prev is recorded (history variable's switch)
    symbol_price, \* per asset: what get_cached_symbol_price(asset + "USDT") does
    telegram,   \* TelegramNotifier: message_queue, its worker, what was delivered
    stream      \* WebsocketStreamReader: the last event handled and what it caused

vars == <<spot, savings, canPurchase, canRedeem, orders, table, failures, mutex,
          dryRun, pc, loc, notes, calls, prev, mon, keepHistory, symbol_price, telegram,
          stream>>

-----------------------------------------------------------------------------
(* Bounds of the model *)

\* initial spot balances of USDT are 20, 37, .. in MaxSpotSteps steps of 17
MaxSpotSteps == 4

\* initial savings balances of USDT are 25 * k, k \in 0..MaxSavingsSteps
MaxSavingsSteps == 1

\* the generated order histories of ETHUSDT hold at most MaxHistory orders
MaxHistory == 3

\* the threads enqueue at most MaxMessages messages in all
MaxMessages == 4

\* the user data stream delivers at most MaxEvents events
MaxEvents == 2

\* the spot balances of USDT from 0.0 to MaxSpotTenths tenths
MaxSpotTenths == 15

-----------------------------------------------------------------------------
(* Configuration and exchange metadata *)

\* decimal digits kept by the model's amounts: amounts are in tenths
FracDigits == 1

QuoteAssets == {"USDT", "BTC"}

\* a symbol is <<base asset, quote asset>>: "ETHUSDT" is <<"ETH", "USDT">>
Symbols == {<<"ETH", "USDT">>, <<"BNB", "USDT">>, <<"ADA", "USDT">>, <<"ETH", "BTC">>}

\* the order in which the exchange lists symbols (get_open_orders)
SymbolOrder == << <<"ETH", "USDT">>, <<"BNB", "USDT">>, <<"ADA", "USDT">>, <<"ETH", "BTC">> >>

\* BinanceClient.get_quote_asset_from_symbol
get_quote_asset_from_symbol(sym) == sym[2]

\* BinanceClient.get_quote_precision: quotePrecision of the symbol info
get_quote_precision(sym) == IF sym[2] = "USDT" THEN 0 ELSE 1

\* BinanceClient.get_savings_min_purchase_amount_by_asset (tenths)
get_savings_min_purchase_amount_by_asset(asset) == IF asset = "USDT" THEN 20 ELSE 1

\* BinanceClient.get_symbol_step_size, in tenths (0.1)
get_symbol_step_size(sym) == 1

\* SavingsEvaluation.excluded_symbols
excluded_symbols == {<<"ADA", "USDT">>}

\* SavingsEvaluation.dca_volume_scale, in tenths (1.2)
dca_volume_scale == 12

\* SavingsEvaluation.quote_coverage, in tenths (0.5)
quote_coverage == 5

-----------------------------------------------------------------------------
(* Sequences *)

RECURSIVE SelectWhere(_, _)
\* [x for x in s if Test(x)], for Test given as a set of accepted elements
SelectWhere(s, ok) ==
    IF s = <<>> THEN <<>>
    ELSE IF Head(s) \in ok THEN <<Head(s)>> \o SelectWhere(Tail(s), ok)
         ELSE SelectWhere(Tail(s), ok)

Range(s) == {s[i] : i \in 1..Len(s)}

RECURSIVE SumSet(_)
SumSet(S) == IF S = {} THEN 0
             ELSE LET x == CHOOSE y \in S : TRUE IN x.next_so + SumSet(S \ {x})

MaxOf(S) == CHOOSE x \in S : \A y \in S : y <= x

Abs(x) == IF x < 0 THEN -x ELSE x

RECURSIVE Pow10(_)
Pow10(n) == IF n <= 0 THEN 1 ELSE 10 * Pow10(n - 1)

-----------------------------------------------------------------------------
(* AssetPrecisionCalculator (asset_precision_calculator.py) *)

\* prices are counted in thousandths of a USDT
PriceDigits == 3

\* what a price query does: it raises, or it returns a value
Quote(raises, value) == [raises |-> raises, value |-> value]

\* BTC at 50000 USDT
DefaultPrices == [a \in QuoteAssets |-> Quote(FALSE, 50000 * Pow10(PriceDigits))]

\* a failing query, 0, 0.001, 0.5, -10 and 50000
Prices ==
    {Quote(TRUE, 0), Quote(FALSE, 0), Quote(FALSE, 1), Quote(FALSE, 500),
     Quote(FALSE, -10000), Quote(FALSE, 50000 * Pow10(PriceDigits))}

RECURSIVE NumDigits(_)
\* the number of decimal digits of a positive integer
NumDigits(n) == IF n < 10 THEN 1 ELSE 1 + NumDigits(n \div 10)

\* __get_exponents: int(floor(log10(abs(price)))), of a price other than 0
get_exponents(p) == NumDigits(Abs(p)) - 1 - PriceDigits

\* a precision that is not held at 0 from below
get_asset_precision_unclamped(asset) ==
    LET p == IF asset = "USDT" THEN Quote(FALSE, Pow10(PriceDigits)) ELSE symbol_price[asset]
    IN IF p.raises \/ p.value = 0 THEN 2 ELSE 2 + get_exponents(p.value)

\* get_asset_precision: the price is 1 for USDT; a query that raises, and
\* int(-inf) for price 0 (OverflowError), leave the default of 2
get_asset_precision(asset) ==
    LET p == IF asset = "USDT" THEN Quote(FALSE, Pow10(PriceDigits)) ELSE symbol_price[asset]
    IN IF p.raises \/ p.value = 0 THEN 2
       ELSE MaxOf({2 + get_exponents(p.value), 0})

-----------------------------------------------------------------------------
(* Order (order.py) *)

\* an order's client order id is a sequence of characters, "d_7_1" is
\* <<"d", "_", "7", "_", "1">>
Order(oid, status, side, ts, price, qty) ==
    [order_id |-> oid, status |-> status, side |-> side, timestamp |-> ts,
     price |-> price, quantity |-> qty, quote_qty |-> price * qty]

RECURSIVE Split(_)
\* str.split("_"): the tokens between underscores
Split(s) ==
    IF \A i \in 1..Len(s) : s[i] # "_" THEN <<s>>
    ELSE LET k == CHOOSE i \in 1..Len(s) : s[i] = "_" /\ \A j \in 1..(i - 1) : s[j] # "_"
         IN <<SubSeq(s, 1, k - 1)>> \o Split(SubSeq(s, k + 1, Len(s)))

\* Order.get_deal_id: order_id.split("_")[-2]
get_deal_id(o) == LET t == Split(o.order_id) IN t[Len(t) - 1]

\* Python's `sub in s` on strings
Contains(sub, s) ==
    \E i \in 0..(Len(s) - Len(sub)) : SubSeq(s, i + 1, i + Len(sub)) = sub

is_new_order(o) == o.status = "NEW"
is_filled_order(o) == o.status = "FILLED"
is_new_or_filled_order(o) == o.status \in {"NEW", "FILLED"}
is_buy_order(o) == o.side = "BUY"

\* re.match(order_id_regex, order_id): the DCA bot's ids start with "d"
matches_order_id_regex(oid) == Len(oid) > 0 /\ oid[1] = "d"

-----------------------------------------------------------------------------
(* Deal reconstruction and next-order projection (savings_evaluation.py) *)

RECURSIVE InsertByTimestamp(_, _)
\* o placed after every order of the sorted list s that is at least as recent
InsertByTimestamp(o, s) ==
    IF s = <<>> THEN <<o>>
    ELSE IF Head(s).timestamp >= o.timestamp
         THEN <<Head(s)>> \o InsertByTimestamp(o, Tail(s))
         ELSE <<o>> \o s

RECURSIVE sort_orders_by_timestamp(_)
\* sorted(orders, key=timestamp, reverse=True): stable, newest first
sort_orders_by_timestamp(s) ==
    IF s = <<>> THEN <<>>
    ELSE InsertByTimestamp(s[Len(s)], sort_orders_by_timestamp(SubSeq(s, 1, Len(s) - 1)))

\* the BUY orders with status NEW or FILLED, newest first
sorted_filtered_orders(ords) ==
    sort_orders_by_timestamp(
        SelectWhere(ords, {o \in Range(ords) : is_new_or_filled_order(o) /\ is_buy_order(o)}))

\* sorted_filtered_orders[0] raises IndexError on an empty list
deal_orders_raise(ords) == sorted_filtered_orders(ords) = <<>>

\* __get_current_deal_orders_by_symbol, for a history on which it does not raise
get_current_deal_orders(ords) ==
    LET sfo == sorted_filtered_orders(ords)
        deal_id == get_deal_id(sfo[1])
    IN SelectWhere(sfo, {o \in Range(sfo) : Contains(deal_id, o.order_id)})

\* an upsert that appends the event order and does not sort again
upsert_order_append_only(order, ords) ==
    IF get_deal_id(order) = get_deal_id(ords[1])
       /\ order.order_id \notin {o.order_id : o \in Range(ords)}
    THEN Append(ords, order)
    ELSE ords

\* __upsert_order_to_orders
upsert_order_to_orders(order, ords) ==
    IF get_deal_id(order) = get_deal_id(ords[1])
       /\ order.order_id \notin {o.order_id : o \in Range(ords)}
    THEN sort_orders_by_timestamp(Append(ords, order))
    ELSE ords

\* a test that asks for an open order only
is_safety_order_open_new_only(current_deal_orders) ==
    \E i \in DOMAIN current_deal_orders : current_deal_orders[i].status = "NEW"

\* __is_safety_order_open
is_safety_order_open(current_deal_orders) ==
    LET statuses == {o.status : o \in Range(current_deal_orders)}
    IN "FILLED" \in statuses /\ "NEW" \in statuses

\* a cost without the step-size buffer
calculate_next_so_cost_no_buffer(open_so, step_size) ==
    open_so.quote_qty * dca_volume_scale

\* __calculate_next_so_cost, in tenths
calculate_next_so_cost(open_so, step_size) ==
    open_so.quote_qty * dca_volume_scale + open_so.price * step_size

\* __calculate_next_order_value: the cost, and whether the NEW order was missing
calculate_next_order_value(sym, current_deal_orders) ==
    LET news == SelectWhere(current_deal_orders,
                            {o \in Range(current_deal_orders) : is_new_order(o)})
    IN IF news # <<>>
       THEN [cost |-> calculate_next_so_cost(news[1], get_symbol_step_size(sym)),
             missing |-> FALSE]
       ELSE IF Len(current_deal_orders) > 0
            THEN [cost |-> calculate_next_so_cost(current_deal_orders[1],
                                                  get_symbol_step_size(sym)),
                  missing |-> TRUE]
            ELSE [cost |-> 0, missing |-> TRUE]

-----------------------------------------------------------------------------
(* AssetsDataframe (assets_dataframe.py): a set of rows, one per symbol *)

Row(sym, next_so, quote_asset) ==
    [symbol |-> sym, next_so |-> next_so, quote_asset |-> quote_asset]

upsert(tab, sym, next_so, quote_asset) ==
    {r \in tab : r.symbol # sym} \cup {Row(sym, next_so, quote_asset)}

\* a drop that empties the whole table instead of one quote asset's rows
drop_everything(tab, quote_asset) == {}

drop_by_quote_asset(tab, quote_asset) == {r \in tab : r.quote_asset # quote_asset}

sum_next_orders(tab, quote_asset) == SumSet({r \in tab : r.quote_asset = quote_asset})

max_next_orders(tab, quote_asset) ==
    MaxOf({r.next_so : r \in {x \in tab : x.quote_asset = quote_asset}})

-----------------------------------------------------------------------------
(* Rounding *)

\* a round() whose ties go away from zero
round_half_away(x, digits) ==
    IF digits >= FracDigits THEN x
    ELSE LET m == Pow10(FracDigits - digits)
             q == x \div m
             r == x % m
         IN IF 2 * r < m THEN q * m
            ELSE IF 2 * r > m THEN (q + 1) * m
            ELSE IF x < 0 THEN q * m ELSE (q + 1) * m

\* Python's round(x, digits) on an amount in tenths: nearest multiple of
\* 10^-digits, a tie going to the even multiple
Round(x, digits) ==
    IF digits >= FracDigits THEN x
    ELSE LET m == Pow10(FracDigits - digits)
             q == x \div m
             r == x % m
         IN IF 2 * r < m THEN q * m
            ELSE IF 2 * r > m THEN (q + 1) * m
            ELSE IF q % 2 = 0 THEN q * m ELSE (q + 1) * m

\* f"%.{precision}f" % quantity: the amount a message names
Format(x, digits) == Round(x, digits)

\* __rebalance_savings: round(current_quote_balance - required_quote_balance, quote_precision)
rebalance_amount(current, required, digits) == Round(current - required, digits)

\* a coverage test that forgets the largest projection
is_rebalance_required_sum_only(tab, quote_asset, current) ==
    current * 10 < sum_next_orders(tab, quote_asset) * quote_coverage

\* __is_rebalance_required: current < max(sum * coverage, max), coverage in tenths
is_rebalance_required(tab, quote_asset, current) ==
    LET orders_sum == sum_next_orders(tab, quote_asset)
        orders_max == max_next_orders(tab, quote_asset)
    IN current * 10 < MaxOf({orders_sum * quote_coverage, orders_max * 10})

-----------------------------------------------------------------------------
(* The exchange's order books *)

Id(deal, idx) == <<"d", "_">> \o deal \o <<"_">> \o idx

\* a deal with its base order filled and one safety order open
OpenDeal(deal, price, qty) ==
    << Order(Id(deal, <<"1">>), "FILLED", "BUY", 1, price + 1, 1),
       Order(Id(deal, <<"2">>), "NEW", "BUY", 2, price, qty),
       Order(Id(deal, <<"t">>), "NEW", "SELL", 3, price + 2, 1) >>

\* every safety order filled: only the take-profit SELL order is open
FilledDeal(deal, price, qty) ==
    << Order(Id(deal, <<"1">>), "FILLED", "BUY", 1, price + 1, 1),
       Order(Id(deal, <<"2">>), "FILLED", "BUY", 2, price, qty),
       Order(Id(deal, <<"t">>), "NEW", "SELL", 3, price + 2, 1) >>

\* the deal hit take profit: safety order cancelled, nothing open
ClosedDeal(deal, price, qty) ==
    << Order(Id(deal, <<"1">>), "FILLED", "BUY", 1, price + 1, 1),
       Order(Id(deal, <<"2">>), "CANCELED", "BUY", 2, price, qty),
       Order(Id(deal, <<"t">>), "FILLED", "SELL", 3, price + 2, 1) >>

\* a take-profit order is open, and the history holds no BUY order NEW or FILLED
SellOnly(deal, price) ==
    << Order(Id(deal, <<"1">>), "CANCELED", "BUY", 1, price, 1),
       Order(Id(deal, <<"t">>), "NEW", "SELL", 3, price + 2, 1) >>

ETHUSDT == <<"ETH", "USDT">>
BNBUSDT == <<"BNB", "USDT">>
ADAUSDT == <<"ADA", "USDT">>
ETHBTC == <<"ETH", "BTC">>

Book(a, b, c, d) ==
    [s \in Symbols |-> IF s = ETHUSDT THEN a ELSE IF s = BNBUSDT THEN b
                       ELSE IF s = ADAUSDT THEN c ELSE d]

Book1 ==
    Book(OpenDeal(<<"7">>, 2, 2), OpenDeal(<<"8">>, 1, 1),
         OpenDeal(<<"9">>, 1, 3), OpenDeal(<<"5">>, 1, 2))

\* a deal without safety orders: the base order bought at market (price 0 in
\* the order's record), the take-profit SELL order open
MarketDeal(deal, qty) ==
    << Order(Id(deal, <<"1">>), "FILLED", "BUY", 1, 0, qty),
       Order(Id(deal, <<"t">>), "NEW", "SELL", 3, 3, qty) >>

BookMarket ==
    Book(MarketDeal(<<"7">>, 2), <<>>, <<>>, OpenDeal(<<"5">>, 1, 2))

\* the only USDT symbol with an open order is the excluded one
BookExcludedOnly ==
    Book(ClosedDeal(<<"7">>, 2, 2), <<>>,
         OpenDeal(<<"9">>, 1, 3), OpenDeal(<<"5">>, 1, 2))

Books ==
    { Book(OpenDeal(<<"7">>, 2, 2), OpenDeal(<<"8">>, 1, 1),
           OpenDeal(<<"9">>, 1, 3), OpenDeal(<<"5">>, 1, 2)),
      Book(ClosedDeal(<<"7">>, 2, 2), OpenDeal(<<"8">>, 1, 1),
           <<>>, FilledDeal(<<"5">>, 1, 2)),
      Book(OpenDeal(<<"7">>, 2, 2), SellOnly(<<"8">>, 1),
           OpenDeal(<<"9">>, 1, 3), ClosedDeal(<<"5">>, 1, 2)) }

\* what an order of a generated history may be: a BUY order open or filled,
\* or the open take-profit SELL order
OrderKinds == {<<"NEW", "BUY">>, <<"FILLED", "BUY">>, <<"NEW", "SELL">>}

\* two deal ids, one a substring of the other
DealIds == {<<"7">>, <<"1", "7">>}

Digits == <<"1", "2", "3", "4", "5", "6", "7", "8", "9">>

\* get_all_orders returns a symbol's orders oldest first: the i-th order of a
\* history has timestamp i, price i and quantity 1 or 2
History(f) ==
    [i \in DOMAIN f |->
        Order(Id(f[i][2], <<Digits[i]>>), f[i][1][1], f[i][1][2], i, i, 1 + (i % 2))]

Histories ==
    {History(f) : f \in UNION {[1..n -> OrderKinds \X DealIds] : n \in 0..MaxHistory}}

\* the order events the stream may deliver for a symbol: a NEW BUY order of
\* the DCA bot, already in the fetched history or not yet
EventOrders(sym) ==
    {o \in Range(orders[sym]) :
        is_new_order(o) /\ is_buy_order(o) /\ matches_order_id_regex(o.order_id)}
    \cup {Order(Id(<<"7">>, <<"3">>), "NEW", "BUY", 4, 1, 1)}

RECURSIVE SymbolsOfOpenOrders(_, _)
\* BinanceClient.get_symbols_by_client_order_id: one entry per open order
\* whose client order id matches, symbol by symbol
SymbolsOfOpenOrders(book, k) ==
    IF k > Len(SymbolOrder) THEN <<>>
    ELSE LET sym == SymbolOrder[k]
             open == SelectWhere(book[sym],
                        {o \in Range(book[sym]) :
                            is_new_order(o) /\ matches_order_id_regex(o.order_id)})
         IN [i \in 1..Len(open) |-> sym] \o SymbolsOfOpenOrders(book, k + 1)

get_symbols_by_client_order_id(book) == SymbolsOfOpenOrders(book, 1)

\* a filter that keeps the excluded symbols
keep_all_symbols(active_symbols) == active_symbols

\* [x for x in active_symbols if all(y not in x for y in excluded_symbols)];
\* no symbol name of the model contains another, so `y in x` is y = x
filter_excluded(active_symbols) ==
    SelectWhere(active_symbols, Range(active_symbols) \ excluded_symbols)

\* __get_quote_assets
get_quote_assets(active_symbols) ==
    {get_quote_asset_from_symbol(sym) : sym \in Range(active_symbols)}

\* __filter_symbols_by_quote_asset: str(sym).endswith(quote_asset); no quote
\* asset of the model is a suffix of another symbol's name
filter_symbols_by_quote_asset(symbols, quote_asset) ==
    SelectWhere(symbols, {sym \in Range(symbols) : sym[2] = quote_asset})

-----------------------------------------------------------------------------
(* Threads *)

\* "event": the order stream calling reevaluate_symbol; "sched": the daily
\* job and "manual": the /rebalance command, calling rebalance_all_symbols;
\* "retry": FailureHandler.monitor_failures
Triggers == {"event", "sched", "manual"}
Threads == Triggers \cup {"retry"}

\* positions between acquire() and release() of the semaphore
Guarded == {"rs", "rqa_start", "rqa_asset", "rqa_sym", "rqa_exec",
            "redeem_call", "subscribe_call", "except", "release"}

NoSym == <<>>
NoOrder == Order(<<>>, "NONE", "NONE", 0, 0, 0)

LocInit ==
    [sym |-> NoSym, ev |-> NoOrder, single |-> FALSE, todo |-> {}, fsyms |-> <<>>,
     q |-> "", qsyms |-> <<>>, prec |-> 0, qty |-> 0, asked |-> 0,
     err |-> FALSE, ex |-> "none", frame |-> "", deltas |-> {}]

\* an enqueued message: its kind, the symbol or asset it names, and its amount
Note(k, s, a, n) == [k |-> k, s |-> s, a |-> a, n |-> n]
ExchangeCall(op, a, n, ok) == [op |-> op, a |-> a, n |-> n, ok |-> ok]

MonInit == [size |-> 0, seen |-> {}, can |-> FALSE, set0 |-> {}, bad |-> FALSE,
            cleared |-> FALSE]

\* a notifier that loses the message of the no-op path
enqueue_unless_no_op(t, ms) ==
    notes' = [notes EXCEPT ![t] = @ \o SelectWhere(ms, {m \in Range(ms) : m.k # "no_rebalancing"})]

Enqueue(t, ms) == notes' = [notes EXCEPT ![t] = @ \o ms]

\* the exchange's state, and what no action changes
Exchange == <<spot, savings, canPurchase, canRedeem, orders, keepHistory, symbol_price,
              telegram, stream>>

-----------------------------------------------------------------------------
(* TelegramNotifier (telegram_notifier.py) *)

NoItem == [id |-> 0, from |-> "", is_verbose |-> FALSE]

\* the notifier after start_notifier: an empty deque, the worker polling
TelegramInit(verbose) ==
    [message_queue |-> <<>>, verbose |-> verbose, pc |-> "poll", item |-> NoItem,
     count |-> 0, delivered |-> <<>>, limited |-> FALSE]

-----------------------------------------------------------------------------
(* WebsocketStreamReader (websocket_stream_reader.py), Order (order.py), *)
(* OrderUpdateProcessor (order_update_processor.py)                      *)

\* the payloads of the user data stream: "e" event type, "s" symbol, "c"
\* client order id, "S" side, "X" status, "p" price, "q" quantity, "O" time
StreamEvents ==
    [e : {"executionReport"}, s : {<<"ETH", "USDT">>, <<"ETH", "BTC">>},
     c : {<<"d", "_", "7", "_", "3">>, <<"w", "e", "b">>},
     S : {"BUY", "SELL"}, X : {"NEW", "FILLED", "CANCELED"},
     p : {1, 2}, q : {1, 2}, O : {4}]
    \cup [e : {"balanceUpdate"}, s : {<<"ETH", "USDT">>}, c : {<<>>}, S : {"NONE"},
          X : {"NONE"}, p : {0}, q : {0}, O : {4}]

NoEvent ==
    [e |-> "none", s |-> <<>>, c |-> <<>>, S |-> "NONE", X |-> "NONE", p |-> 0, q |-> 0,
     O |-> 0]

\* the fields of the dataclass that __init__ takes, in order (quote_qty is
\* init=False)
OrderFields ==
    <<"symbol", "base_asset", "quote_asset", "price", "quantity", "order_id", "status",
      "side", "timestamp">>

\* the generated __init__ called with positional arguments: TypeError unless
\* there is one argument for each field
dataclass_init(fields, args) ==
    IF Len(args) # Len(fields)
    THEN [raises |-> TRUE, value |-> <<>>]
    ELSE [raises |-> FALSE,
          value |-> [f \in {fields[i] : i \in DOMAIN fields} |->
                       args[CHOOSE i \in DOMAIN fields : fields[i] = f]]]

\* WebsocketStreamReader.__map_order: the arguments it passes to Order
map_order(order) ==
    <<order.s, order.s[2], order.p, order.q, order.c, order.X, order.S, order.O>>

\* OrderUpdateProcessor.process_order: the reevaluate_symbol calls it makes
process_order(order) ==
    IF matches_order_id_regex(order.order_id) /\ is_buy_order(order) /\ is_new_order(order)
    THEN <<[symbol |-> order.symbol, order_event |-> order]>>
    ELSE <<>>

\* __handle_order_update_event: what the handler calls and what it logs
handle_order_update_event(order_event) ==
    LET order == dataclass_init(OrderFields, map_order(order_event))
    IN IF order.raises
       THEN [reevaluations |-> <<>>, logged |-> "TypeError"]
       ELSE [reevaluations |-> process_order(order.value), logged |-> "none"]

\* nothing received yet
StreamInit == [received |-> 0, event |-> NoEvent, reevaluations |-> <<>>, logged |-> "none"]

-----------------------------------------------------------------------------
(* Initial states *)

InitCommon ==
    /\ table = {}
    /\ failures = {}
    /\ mutex = 1
    /\ pc = [t \in Threads |-> IF t = "retry" THEN "mon_start" ELSE "idle"]
    /\ loc = [t \in Threads |-> LocInit]
    /\ notes = [t \in Threads |-> <<>>]
    /\ calls = [t \in Threads |-> <<>>]
    /\ prev = [t \in Threads |-> [calls |-> <<>>, deltas |-> {}, err |-> FALSE]]
    /\ mon = MonInit
    /\ symbol_price = DefaultPrices
    /\ stream = StreamInit

\* every deal open, or no USDT deal open but the excluded symbol's; USDT
\* short and BTC in surplus, every product open
Init ==
    /\ InitCommon
    /\ telegram = TelegramInit(FALSE)
    /\ orders \in {Book1, BookExcludedOnly}
    /\ keepHistory = FALSE
    /\ dryRun = FALSE
    /\ canPurchase = [a \in QuoteAssets |-> TRUE]
    /\ canRedeem = [a \in QuoteAssets |-> TRUE]
    /\ spot = [a \in QuoteAssets |-> IF a = "USDT" THEN 40 ELSE 27]
    /\ savings = [a \in QuoteAssets |-> IF a = "USDT" THEN 25 ELSE 10]

\* any order book, balances and product flags; consecutive calls are recorded
InitSeq ==
    /\ InitCommon
    /\ telegram = TelegramInit(FALSE)
    /\ orders \in Books
    /\ keepHistory = TRUE
    /\ dryRun = FALSE
    /\ canPurchase \in [QuoteAssets -> BOOLEAN]
    /\ canRedeem \in {f \in [QuoteAssets -> BOOLEAN] : f["BTC"] = canPurchase["BTC"]}
    /\ \E k \in 0..MaxSpotSteps, j \in 0..MaxSavingsSteps :
          /\ spot = [a \in QuoteAssets |-> IF a = "USDT" THEN 20 + 17 * (MaxSpotSteps - k)
                                               ELSE 10 + 5 * k]
          /\ savings = [a \in QuoteAssets |-> IF a = "USDT" THEN 25 * j ELSE 10 * j]

-----------------------------------------------------------------------------
(* The guard: reevaluate_symbol / rebalance_all_symbols *)

\* a trigger starts a call: the order stream reevaluate_symbol, the scheduler
\* and the /rebalance command rebalance_all_symbols
Call(t) ==
    /\ t \in Triggers
    /\ pc[t] = "idle"
    /\ pc' = [pc EXCEPT ![t] = "acquire"]
    /\ UNCHANGED <<Exchange, table, failures, mutex, dryRun, loc, notes, calls, prev, mon>>

\* an acquire() that never blocks
acquire_without_blocking(permits) == TRUE

\* Semaphore.acquire() returns only when a permit is available
acquire_enabled(permits) == permits > 0

\* the arguments of the call matter from here on: the order stream's symbol
\* and order event are chosen as the permit is taken
Acquire(t) ==
    /\ pc[t] = "acquire"
    /\ acquire_enabled(mutex)
    /\ mutex' = mutex - 1
    /\ pc' = [pc EXCEPT ![t] = IF t = "event" THEN "rs" ELSE "rqa_start"]
    /\ \E sym \in (IF t = "event" THEN Symbols ELSE {NoSym}) :
         \E ev \in (IF t = "event" THEN EventOrders(sym) ELSE {NoOrder}) :
            loc' = [loc EXCEPT ![t] = [LocInit EXCEPT !.sym = sym, !.ev = ev]]
    /\ UNCHANGED <<Exchange, table, failures, dryRun, notes, calls, prev, mon>>

\* a finally block that is skipped when the body raised
release_unless_raised(permits, raised) == IF raised THEN permits ELSE permits + 1

\* finally: self.rebalance_mutex.release()
release(permits, raised) == permits + 1

Release(t) ==
    /\ pc[t] = "release"
    /\ mutex' = release(mutex, loc[t].err)
    /\ pc' = [pc EXCEPT ![t] = IF t = "retry" THEN "mon_sleep" ELSE "idle"]
    /\ loc' = [loc EXCEPT ![t] = LocInit]
    /\ notes' = [notes EXCEPT ![t] = <<>>]
    /\ calls' = [calls EXCEPT ![t] = <<>>]
    /\ prev' = IF keepHistory
               THEN [prev EXCEPT ![t] = [calls |-> calls[t], deltas |-> loc[t].deltas,
                                         err |-> loc[t].err]]
               ELSE prev
    /\ UNCHANGED <<Exchange, table, failures, dryRun, mon, keepHistory>>

\* an except block that only logs
on_guard_error_silent(t) == <<>>

\* except Exception: the message enqueued at the guard boundary
on_guard_error(t) ==
    IF t = "event" THEN <<Note("error_symbol", loc[t].sym, "", 0)>>
    ELSE <<Note("error_all", NoSym, "", 0)>>

Except(t) ==
    /\ pc[t] = "except"
    /\ Enqueue(t, on_guard_error(t))
    /\ pc' = [pc EXCEPT ![t] = "release"]
    /\ UNCHANGED <<Exchange, table, failures, mutex, dryRun, loc, calls, prev, mon>>

\* an exception leaves the frames of the computation: their locals are gone,
\* the guard's handler sees the arguments of the call and the exception ex
Unwound(l, ex) ==
    [LocInit EXCEPT !.sym = l.sym, !.deltas = l.deltas, !.err = TRUE, !.ex = ex]

\* an exchange query of the guarded computation raises before the step
\* changes anything: get_all_orders, get_open_orders, get_symbol_info,
\* get_asset_balance (at "rqa_exec": line 161, before the Executor is called)
QueryRaises(t) ==
    /\ pc[t] \in {"rs", "rqa_start", "rqa_sym", "rqa_exec"}
    /\ pc' = [pc EXCEPT ![t] = "except"]
    /\ loc' = [loc EXCEPT ![t] = Unwound(@, "BinanceAPIException")]
    /\ UNCHANGED <<Exchange, table, failures, mutex, dryRun, notes, calls, prev, mon>>

-----------------------------------------------------------------------------
(* Single-symbol reevaluation: __reevaluate_symbol *)

Raised(t, ex) ==
    /\ pc' = [pc EXCEPT ![t] = "except"]
    /\ loc' = [loc EXCEPT ![t] = Unwound(@, ex)]

Reevaluate(t) ==
    /\ pc[t] = "rs"
    /\ LET l == loc[t]
           ords == orders[l.sym]
       IN IF deal_orders_raise(ords)
          THEN \* IndexError: no BUY order NEW or FILLED in the history
               /\ Raised(t, "IndexError")
               /\ UNCHANGED <<table, notes>>
          ELSE LET fetched == get_current_deal_orders(ords)
                   cdo == IF l.ev # NoOrder
                          THEN upsert_order_to_orders(l.ev, fetched) ELSE fetched
                   v == calculate_next_order_value(l.sym, cdo)
                   q == get_quote_asset_from_symbol(l.sym)
                   tab == upsert(table, l.sym, v.cost, q)
                   said == <<Note("reevaluating", l.sym, "", 0)>>
               IN IF is_safety_order_open(cdo)
                  THEN /\ table' = tab
                       /\ \/ /\ is_rebalance_required(tab, q, spot[q])
                             /\ Enqueue(t, said)
                             /\ pc' = [pc EXCEPT ![t] = "rqa_start"]
                             /\ loc' = [loc EXCEPT ![t].single = TRUE, ![t].q = q]
                          \/ /\ ~is_rebalance_required(tab, q, spot[q])
                             /\ Enqueue(t, said \o <<Note("not_needed", NoSym, q, 0)>>)
                             /\ pc' = [pc EXCEPT ![t] = "release"]
                             /\ UNCHANGED loc
                          \/ \* a balance or savings query raises after the upsert
                             /\ Enqueue(t, said)
                             /\ Raised(t, "BinanceAPIException")
                  ELSE /\ Enqueue(t, <<Note("not_open", l.sym, "", 0)>>)
                       /\ pc' = [pc EXCEPT ![t] = "release"]
                       /\ UNCHANGED <<table, loc>>
    /\ UNCHANGED <<Exchange, failures, mutex, dryRun, calls, prev, mon>>

-----------------------------------------------------------------------------
(* Full-universe / one-quote-asset recomputation: __rebalance_quote_assets *)

\* a recomputation that takes every active quote asset whatever it was given
quote_assets_always_all(filtered_active_symbols, single, quote_asset) ==
    get_quote_assets(filtered_active_symbols)

\* line 151: the quote assets of the active symbols, or set([quote_asset])
quote_assets(filtered_active_symbols, single, quote_asset) ==
    IF single THEN {quote_asset} ELSE get_quote_assets(filtered_active_symbols)

\* lines 148-152: the symbols, the quote assets, the first message
RqaStart(t) ==
    /\ pc[t] = "rqa_start"
    /\ LET f == filter_excluded(get_symbols_by_client_order_id(orders))
           qas == quote_assets(f, loc[t].single, loc[t].q)
       IN /\ loc' = [loc EXCEPT ![t].fsyms = f, ![t].todo = qas]
          /\ Enqueue(t, <<Note("reevaluating_quotes", NoSym, "", Cardinality(qas))>>)
          /\ pc' = [pc EXCEPT ![t] = IF qas = {} THEN "release" ELSE "rqa_asset"]
    /\ UNCHANGED <<Exchange, table, failures, mutex, dryRun, calls, prev, mon>>

\* lines 153-156: the next quote asset of the set, in any order
RqaAsset(t) ==
    /\ pc[t] = "rqa_asset"
    /\ \E q \in loc[t].todo :
         LET qs == filter_symbols_by_quote_asset(loc[t].fsyms, q)
         IN /\ table' = drop_by_quote_asset(table, q)
            /\ IF qs = <<>>
               THEN \* quote_symbols[0] raises IndexError
                    Raised(t, "IndexError")
               ELSE /\ loc' = [loc EXCEPT ![t].q = q, ![t].todo = @ \ {q},
                                          ![t].qsyms = qs,
                                          ![t].prec = get_quote_precision(qs[1])]
                    /\ pc' = [pc EXCEPT ![t] = "rqa_sym"]
    /\ UNCHANGED <<Exchange, failures, mutex, dryRun, notes, calls, prev, mon>>

\* lines 157-160: one symbol of the quote asset
RqaSym(t) ==
    /\ pc[t] = "rqa_sym"
    /\ LET l == loc[t]
           sym == Head(l.qsyms)
           ords == orders[sym]
       IN IF deal_orders_raise(ords)
          THEN /\ Raised(t, "IndexError")
               /\ UNCHANGED <<table, notes>>
          ELSE LET v == calculate_next_order_value(sym, get_current_deal_orders(ords))
               IN /\ table' = upsert(table, sym, v.cost, l.q)
                  /\ Enqueue(t, IF v.missing THEN <<Note("no_new_order", sym, "", 0)>>
                                ELSE <<>>)
                  /\ loc' = [loc EXCEPT ![t].qsyms = Tail(@)]
                  /\ pc' = [pc EXCEPT ![t] = IF Tail(l.qsyms) = <<>> THEN "rqa_exec"
                                             ELSE "rqa_sym"]
    /\ UNCHANGED <<Exchange, failures, mutex, dryRun, calls, prev, mon>>

-----------------------------------------------------------------------------
(* The Executor: __rebalance_savings, __redeem_asset_from_savings,         *)
(* __subscribe_asset_to_savings                                            *)

\* the position after the Executor returns: the next quote asset, or the end
AfterAsset(l) == IF l.todo = {} THEN "release" ELSE "rqa_asset"

\* a redemption that asks for the whole shortfall, whatever the savings hold
redeem_gate_uncapped(quantity, savings_amount, can_redeem) ==
    [partial |-> savings_amount < quantity, qty |-> quantity, go |-> can_redeem]

\* a subscription that never looks at the purchasable flag
subscribe_gate_ignoring_flag(quantity, min_purchase_amount, can_purchase) ==
    IF quantity < min_purchase_amount THEN "below_minimum" ELSE "go"

\* an except block that reports the error and forgets the asset
on_transfer_error_forgetful(fs, asset) == fs

\* lines 267-274 and 311-318: except Exception: rebalance_failures.add(asset)
on_transfer_error(fs, asset) == fs \cup {asset}

\* a redemption that ignores the redeemable flag
redeem_gate_ignoring_flag(quantity, savings_amount, can_redeem) ==
    [partial |-> savings_amount < quantity,
     qty |-> IF savings_amount < quantity THEN savings_amount ELSE quantity,
     go |-> TRUE]

\* lines 239-253: the cap to the savings available and the redeemable check
redeem_gate(quantity, savings_amount, can_redeem) ==
    [partial |-> savings_amount < quantity,
     qty |-> IF savings_amount < quantity THEN savings_amount ELSE quantity,
     go |-> can_redeem]

\* a subscription that checks the purchasable flag before the minimum
subscribe_gate_flag_first(quantity, min_purchase_amount, can_purchase) ==
    IF ~can_purchase THEN "unavailable"
    ELSE IF quantity < min_purchase_amount THEN "below_minimum"
    ELSE "go"

\* lines 285-298: the minimum purchase amount, then the purchasable check
subscribe_gate(quantity, min_purchase_amount, can_purchase) ==
    IF quantity < min_purchase_amount THEN "below_minimum"
    ELSE IF ~can_purchase THEN "unavailable"
    ELSE "go"

\* lines 161-163, 219-228 and the Executor up to its try block
RqaExec(t) ==
    /\ pc[t] = "rqa_exec"
    /\ LET q == loc[t].q
           delta == rebalance_amount(spot[q], sum_next_orders(table, q), loc[t].prec)
           l == [loc[t] EXCEPT !.deltas = @ \cup {[a |-> q, d |-> delta]}]
           rg == redeem_gate(-delta, savings[q], canRedeem[q])
           sg == subscribe_gate(delta, get_savings_min_purchase_amount_by_asset(q),
                                canPurchase[q])
           short == IF rg.partial THEN <<Note("not_enough", NoSym, q, savings[q])>>
                    ELSE <<>>
       IN IF delta < 0
          THEN IF rg.go
               THEN /\ Enqueue(t, short)
                    /\ loc' = [loc EXCEPT ![t] = [l EXCEPT !.qty = rg.qty, !.asked = -delta]]
                    /\ pc' = [pc EXCEPT ![t] = "redeem_call"]
                    /\ UNCHANGED failures
               ELSE /\ Enqueue(t, short \o <<Note("redeem_unavailable", NoSym, q, 0)>>)
                    /\ failures' = failures \cup {q}
                    /\ loc' = [loc EXCEPT ![t] = l]
                    /\ pc' = [pc EXCEPT ![t] = AfterAsset(l)]
          ELSE IF delta > 0
          THEN IF sg = "go"
               THEN /\ loc' = [loc EXCEPT ![t] = [l EXCEPT !.qty = delta, !.asked = delta]]
                    /\ pc' = [pc EXCEPT ![t] = "subscribe_call"]
                    /\ UNCHANGED <<failures, notes>>
               ELSE IF sg = "unavailable"
               THEN /\ Enqueue(t, <<Note("purchase_unavailable", NoSym, q, 0)>>)
                    /\ failures' = failures \cup {q}
                    /\ loc' = [loc EXCEPT ![t] = l]
                    /\ pc' = [pc EXCEPT ![t] = AfterAsset(l)]
               ELSE /\ Enqueue(t, <<Note("below_minimum", NoSym, q, delta)>>)
                    /\ loc' = [loc EXCEPT ![t] = l]
                    /\ pc' = [pc EXCEPT ![t] = AfterAsset(l)]
                    /\ UNCHANGED failures
          ELSE /\ Enqueue(t, <<Note("no_rebalancing", NoSym, "", 0)>>)
               /\ loc' = [loc EXCEPT ![t] = l]
               /\ pc' = [pc EXCEPT ![t] = AfterAsset(l)]
               /\ UNCHANGED failures
    /\ UNCHANGED <<Exchange, table, mutex, dryRun, calls, prev, mon>>

\* a query the Executor makes before its try block raises: lines 239 and 247
\* of __redeem_asset_from_savings, lines 285 and 292 of
\* __subscribe_asset_to_savings. No handler of the Executor is around them, so
\* the exception leaves the Executor's frame and reaches the guard.
ExecutorQueryRaises(t) ==
    /\ pc[t] = "rqa_exec"
    /\ rebalance_amount(spot[loc[t].q], sum_next_orders(table, loc[t].q), loc[t].prec) # 0
    /\ pc' = [pc EXCEPT ![t] = "except"]
    /\ loc' = [loc EXCEPT ![t] = [Unwound(@, "BinanceAPIException") EXCEPT !.frame = "executor"]]
    /\ UNCHANGED <<Exchange, table, failures, mutex, dryRun, notes, calls, prev, mon>>

\* a redemption that is made in dry-run mode too
redeem_is_executed_always(dry_run, quantity) == quantity > 0

\* line 257: if self.dry_run == False and quantity > 0
redeem_is_executed(dry_run, quantity) == dry_run = FALSE /\ quantity > 0

\* line 302: if self.dry_run == False
subscribe_is_executed(dry_run) == dry_run = FALSE

\* lines 255-274: the try block of __redeem_asset_from_savings
RedeemCall(t) ==
    /\ pc[t] = "redeem_call"
    /\ LET l == loc[t]
           q == l.q
           moved == Note("moved_to_spot", NoSym, q, Format(l.asked, get_asset_precision(q)))
       IN /\ IF redeem_is_executed(dryRun, l.qty)
             THEN \/ \* redeem_lending_product succeeds
                     /\ l.qty <= savings[q]
                     /\ savings' = [savings EXCEPT ![q] = @ - l.qty]
                     /\ spot' = [spot EXCEPT ![q] = @ + l.qty]
                     /\ calls' = [calls EXCEPT ![t] = Append(@, ExchangeCall("redeem", q, l.qty, TRUE))]
                     /\ Enqueue(t, <<moved>>)
                     /\ UNCHANGED failures
                  \/ \* redeem_lending_product raises
                     /\ calls' = [calls EXCEPT ![t] = Append(@, ExchangeCall("redeem", q, l.qty, FALSE))]
                     /\ Enqueue(t, <<Note("error_redeem", NoSym, q, 0)>>)
                     /\ failures' = on_transfer_error(failures, q)
                     /\ UNCHANGED <<spot, savings>>
             ELSE /\ Enqueue(t, <<Note("dry_run", NoSym, "", 0), moved>>)
                  /\ UNCHANGED <<spot, savings, calls, failures>>
          /\ pc' = [pc EXCEPT ![t] = AfterAsset(l)]
    /\ UNCHANGED <<canPurchase, canRedeem, orders, keepHistory, symbol_price, telegram, stream, table, mutex,
                   dryRun, loc, prev, mon>>

\* lines 300-318: the try block of __subscribe_asset_to_savings
SubscribeCall(t) ==
    /\ pc[t] = "subscribe_call"
    /\ LET l == loc[t]
           q == l.q
           moved == Note("moved_to_savings", NoSym, q, Format(l.asked, get_asset_precision(q)))
       IN /\ IF subscribe_is_executed(dryRun)
             THEN \/ \* purchase_lending_product succeeds
                     /\ l.qty <= spot[q]
                     /\ spot' = [spot EXCEPT ![q] = @ - l.qty]
                     /\ savings' = [savings EXCEPT ![q] = @ + l.qty]
                     /\ calls' = [calls EXCEPT ![t] = Append(@, ExchangeCall("subscribe", q, l.qty, TRUE))]
                     /\ Enqueue(t, <<moved>>)
                     /\ UNCHANGED failures
                  \/ \* purchase_lending_product raises
                     /\ calls' = [calls EXCEPT ![t] = Append(@, ExchangeCall("subscribe", q, l.qty, FALSE))]
                     /\ Enqueue(t, <<Note("error_subscribe", NoSym, q, 0)>>)
                     /\ failures' = on_transfer_error(failures, q)
                     /\ UNCHANGED <<spot, savings>>
             ELSE /\ Enqueue(t, <<Note("dry_run", NoSym, "", 0), moved>>)
                  /\ UNCHANGED <<spot, savings, calls, failures>>
          /\ pc' = [pc EXCEPT ![t] = AfterAsset(l)]
    /\ UNCHANGED <<canPurchase, canRedeem, orders, keepHistory, symbol_price, telegram, stream, table, mutex,
                   dryRun, loc, prev, mon>>

-----------------------------------------------------------------------------
(* FailureHandler.monitor_failures: one tick is lines 41-60 *)

R == "retry"

\* a loop that keeps examining the members after one is unavailable
examine_without_break(can_purchase, can_redeem) ==
    [can_rebalance |-> can_purchase /\ can_redeem, stop |-> FALSE]

\* lines 44-54: the two checks of one failed asset
examine(can_purchase, can_redeem) ==
    IF can_purchase /\ can_redeem
    THEN [can_rebalance |-> TRUE, stop |-> FALSE]
    ELSE [can_rebalance |-> FALSE, stop |-> TRUE]

\* lines 41-42: can_rebalance = False, and the iterator over the set is made
MonStart ==
    /\ pc[R] = "mon_start"
    /\ mon' = [MonInit EXCEPT !.size = Cardinality(failures), !.set0 = failures]
    /\ pc' = [pc EXCEPT ![R] = "mon_next"]
    /\ UNCHANGED <<Exchange, table, failures, mutex, dryRun, loc, notes, calls, prev>>

\* one step of `for failed_asset in rebalance_failures:`. The set iterator
\* raises RuntimeError when the set's size differs from the size it had when
\* the iterator was made; nothing catches it, and the thread ends.
MonNext ==
    /\ pc[R] = "mon_next"
    /\ IF Cardinality(failures) # mon.size
       THEN /\ pc' = [pc EXCEPT ![R] = "dead"]
            /\ UNCHANGED mon
       ELSE IF mon.seen = failures
       THEN /\ pc' = [pc EXCEPT ![R] = "mon_decide"]
            /\ UNCHANGED mon
       ELSE \E a \in failures \ mon.seen :
               LET e == examine(canPurchase[a], canRedeem[a])
               IN /\ mon' = [mon EXCEPT !.seen = @ \cup {a},
                                        !.can = e.can_rebalance,
                                        !.bad = @ \/ ~(canPurchase[a] /\ canRedeem[a])]
                  /\ pc' = [pc EXCEPT ![R] = IF e.stop THEN "mon_decide" ELSE "mon_next"]
    /\ UNCHANGED <<Exchange, table, failures, mutex, dryRun, loc, notes, calls, prev>>

\* can_purchase_savings_asset / can_redeem_savings_asset raises: nothing
\* catches it, and the thread ends
MonQueryRaises ==
    /\ pc[R] = "mon_next"
    /\ Cardinality(failures) = mon.size
    /\ mon.seen # failures
    /\ pc' = [pc EXCEPT ![R] = "dead"]
    /\ UNCHANGED <<Exchange, table, failures, mutex, dryRun, loc, notes, calls, prev, mon>>

\* lines 55-59: clear the failures and call rebalance_all_symbols, or sleep
MonDecide ==
    /\ pc[R] = "mon_decide"
    /\ IF mon.can
       THEN /\ Enqueue(R, <<Note("starting_retry", NoSym, "", 0)>>)
            /\ failures' = {}
            /\ mon' = [mon EXCEPT !.cleared = TRUE]
            /\ pc' = [pc EXCEPT ![R] = "acquire"]
       ELSE /\ pc' = [pc EXCEPT ![R] = "mon_sleep"]
            /\ UNCHANGED <<failures, notes, mon>>
    /\ UNCHANGED <<Exchange, table, mutex, dryRun, loc, calls, prev>>

\* line 60: sleep(ONE_MINUTE), then the next tick
MonSleep ==
    /\ pc[R] = "mon_sleep"
    /\ pc' = [pc EXCEPT ![R] = "mon_start"]
    /\ mon' = MonInit
    /\ notes' = [notes EXCEPT ![R] = <<>>]
    /\ UNCHANGED <<Exchange, table, failures, mutex, dryRun, loc, calls, prev>>

-----------------------------------------------------------------------------
(* The exchange *)

\* the assets whose savings product opens and closes while the bot runs
Closing == {"BTC"}

\* the savings product of an asset opens or closes for purchase
PurchasableChanges ==
    /\ \E a \in Closing : canPurchase' = [canPurchase EXCEPT ![a] = ~@]
    /\ UNCHANGED <<spot, savings, canRedeem, orders, keepHistory, symbol_price, telegram, stream, table, failures, mutex,
                   dryRun, pc, loc, notes, calls, prev, mon>>

\* the savings product of an asset opens or closes for redemption
RedeemableChanges ==
    /\ \E a \in Closing : canRedeem' = [canRedeem EXCEPT ![a] = ~@]
    /\ UNCHANGED <<spot, savings, canPurchase, orders, keepHistory, symbol_price, telegram, stream, table, failures, mutex,
                   dryRun, pc, loc, notes, calls, prev, mon>>

-----------------------------------------------------------------------------
(* Specifications *)

\* the steps of a call between acquire() and release()
Pass(t) ==
    \/ Acquire(t)
    \/ RqaStart(t)
    \/ RqaAsset(t)
    \/ RqaSym(t)
    \/ RqaExec(t)
    \/ RedeemCall(t)
    \/ SubscribeCall(t)
    \/ QueryRaises(t)
    \/ ExecutorQueryRaises(t)
    \/ Except(t)
    \/ Release(t)

Monitor ==
    \/ MonStart
    \/ MonNext
    \/ MonQueryRaises
    \/ MonDecide
    \/ MonSleep

\* the three triggers calling at any time; the exchange's products stay
\* open and its order books unchanged
Next ==
    \/ \E t \in Triggers : Call(t)
    \/ \E t \in Triggers : Pass(t)
    \/ Reevaluate("event")

Spec == Init /\ [][Next]_vars

\* the failure monitor and the scheduler, the exchange's products closing
\* and opening
NextRetry ==
    \/ Call("sched")
    \/ \E t \in {"sched", R} : Pass(t)
    \/ Monitor
    \/ PurchasableChanges
    \/ RedeemableChanges

SpecRetry == Init /\ [][NextRetry]_vars

\* the same threads when every exchange query returns, under fair scheduling
PassReturning(t) ==
    \/ Acquire(t)
    \/ RqaStart(t)
    \/ RqaAsset(t)
    \/ RqaSym(t)
    \/ RqaExec(t)
    \/ RedeemCall(t)
    \/ SubscribeCall(t)
    \/ Release(t)

MonitorReturning ==
    \/ MonStart
    \/ MonNext
    \/ MonDecide
    \/ MonSleep

NextLive ==
    \/ Call("sched")
    \/ \E t \in {"sched", R} : PassReturning(t)
    \/ MonitorReturning
    \/ PurchasableChanges
    \/ RedeemableChanges

\* the positions of a thread, and those at which its next step needs
\* nothing but the processor
Positions ==
    {"idle", "acquire", "rs", "rqa_start", "rqa_asset", "rqa_sym", "rqa_exec",
     "redeem_call", "subscribe_call", "except", "release",
     "mon_start", "mon_next", "mon_decide", "mon_sleep", "dead"}

Runnable == Positions \ {"idle", "acquire", "dead"}

\* thread t leaves a position at which it is runnable
Advances(t) ==
    /\ pc[t] \in Runnable
    /\ \E p \in Positions : pc' = [pc EXCEPT ![t] = p]

\* a runnable thread is not kept from running for ever, and a thread that
\* finds the permit free again and again takes it
Fair(t) == WF_pc(Advances(t)) /\ SF_vars(Acquire(t))

SpecLive == Init /\ [][NextLive]_vars /\ Fair("sched") /\ Fair(R)

\* the three triggers, fairly scheduled; queries may raise
SpecFair == Spec /\ \A t \in Triggers : Fair(t)

\* the three triggers in dry-run mode, from several exchange states
InitDry ==
    /\ InitCommon
    /\ telegram = TelegramInit(FALSE)
    /\ orders \in Books
    /\ keepHistory = FALSE
    /\ dryRun = TRUE
    /\ canPurchase \in {[a \in QuoteAssets |-> TRUE], [a \in QuoteAssets |-> a # "BTC"]}
    /\ canRedeem = canPurchase
    /\ spot \in {[a \in QuoteAssets |-> IF a = "USDT" THEN 90 ELSE 10],
                 [a \in QuoteAssets |-> IF a = "USDT" THEN 20 ELSE 40]}
    /\ savings = [a \in QuoteAssets |-> IF a = "USDT" THEN 25 ELSE 10]

SpecDry == InitDry /\ [][Next]_vars

\* one thread calling rebalance_all_symbols again and again, from any
\* exchange state, nothing else changing the orders or the balances
NextSeq ==
    \/ Call("sched")
    \/ Pass("sched")

SpecSeq == InitSeq /\ [][NextSeq]_vars

\* full passes over a market deal, from every small spot balance of USDT
InitRound ==
    /\ InitCommon
    /\ telegram = TelegramInit(FALSE)
    /\ orders = BookMarket
    /\ keepHistory = FALSE
    /\ dryRun = FALSE
    /\ canPurchase = [a \in QuoteAssets |-> TRUE]
    /\ canRedeem = [a \in QuoteAssets |-> TRUE]
    /\ \E k \in 0..MaxSpotTenths : spot = [a \in QuoteAssets |-> IF a = "USDT" THEN k ELSE 5]
    /\ savings = [a \in QuoteAssets |-> IF a = "USDT" THEN 25 ELSE 40]

SpecRound == InitRound /\ [][NextSeq]_vars

\* the scheduler and the /rebalance command call rebalance_all_symbols at
\* the same time, once each
InitTwo ==
    /\ orders \in Books
    /\ table = {}
    /\ failures = {}
    /\ mutex = 1
    /\ pc = [t \in Threads |-> IF t \in {"sched", "manual"} THEN "acquire"
                               ELSE IF t = R THEN "mon_start" ELSE "idle"]
    /\ loc = [t \in Threads |-> LocInit]
    /\ notes = [t \in Threads |-> <<>>]
    /\ calls = [t \in Threads |-> <<>>]
    /\ prev = [t \in Threads |-> [calls |-> <<>>, deltas |-> {}, err |-> FALSE]]
    /\ mon = MonInit
    /\ telegram = TelegramInit(FALSE)
    /\ stream = StreamInit
    /\ keepHistory = TRUE
    /\ dryRun = FALSE
    /\ canPurchase \in [QuoteAssets -> BOOLEAN]
    /\ canRedeem = canPurchase
    /\ \E p \in Prices : symbol_price = [a \in QuoteAssets |-> p]
    /\ spot \in {[a \in QuoteAssets |-> IF a = "USDT" THEN 90 ELSE 10],
                 [a \in QuoteAssets |-> IF a = "USDT" THEN 20 ELSE 40]}
    /\ savings = [a \in QuoteAssets |-> IF a = "USDT" THEN 25 ELSE 10]

NextTwo == \E t \in {"sched", "manual"} : Pass(t)

SpecTwo == InitTwo /\ [][NextTwo]_vars

\* any history of ETHUSDT beside an open deal of the excluded ADAUSDT; the
\* order stream delivers events one after the other
InitDeal ==
    /\ InitCommon
    /\ telegram = TelegramInit(FALSE)
    /\ \E h \in Histories : orders = Book(h, <<>>, OpenDeal(<<"9">>, 2, 3), <<>>)
    /\ keepHistory = FALSE
    /\ dryRun = FALSE
    /\ canPurchase = [a \in QuoteAssets |-> TRUE]
    /\ canRedeem = [a \in QuoteAssets |-> TRUE]
    /\ spot = [a \in QuoteAssets |-> IF a = "USDT" THEN 60 ELSE 0]
    /\ savings = [a \in QuoteAssets |-> IF a = "USDT" THEN 25 ELSE 0]

NextDeal ==
    \/ Call("event")
    \/ Pass("event")
    \/ Reevaluate("event")

SpecDeal == InitDeal /\ [][NextDeal]_vars

-----------------------------------------------------------------------------
(* The notifier's queue and its worker thread *)

OnlyTelegram ==
    UNCHANGED <<spot, savings, canPurchase, canRedeem, orders, keepHistory, symbol_price,
                stream, table, failures, mutex, dryRun, pc, loc, notes, calls, prev, mon>>

\* enqueue_message, called by thread t: message_queue.append((message, is_verbose));
\* a message is known by the number of messages enqueued before it
EnqueueMessage(t) ==
    /\ telegram.count < MaxMessages
    /\ \E v \in BOOLEAN :
          telegram' = [telegram EXCEPT
                         !.count = @ + 1,
                         !.message_queue = Append(@, [id |-> telegram.count + 1,
                                                     from |-> t, is_verbose |-> v])]
    /\ OnlyTelegram

\* a retry that puts the failed message behind the waiting ones
requeue_at_back(queue, item) == Append(queue, item)

\* message_queue.appendleft(queue_item)
requeue(queue, item) == <<item>> \o queue

\* __read_message_queue: if len(message_queue) > 0, popleft and send
Poll ==
    /\ telegram.pc = "poll"
    /\ telegram.message_queue # <<>>
    /\ telegram' = [telegram EXCEPT !.pc = "send", !.item = Head(telegram.message_queue),
                                    !.message_queue = Tail(@), !.limited = FALSE]
    /\ OnlyTelegram

\* __send_message: a verbose message of a quiet notifier is skipped;
\* send_message succeeds, raises RetryAfter, or raises something else
SendMessage ==
    /\ telegram.pc = "send"
    /\ IF telegram.verbose = TRUE \/ telegram.item.is_verbose = FALSE
       THEN \/ telegram' = [telegram EXCEPT !.pc = "sleep", !.item = NoItem,
                                            !.delivered = Append(@, telegram.item)]
            \/ telegram' = [telegram EXCEPT
                              !.pc = "sleep", !.item = NoItem, !.limited = TRUE,
                              !.message_queue = requeue(@, telegram.item)]
            \/ telegram' = [telegram EXCEPT !.pc = "sleep", !.item = NoItem]
       ELSE telegram' = [telegram EXCEPT !.pc = "sleep", !.item = NoItem]
    /\ OnlyTelegram

\* sleep(retry_after), sleep(1)
WorkerSleeps ==
    /\ telegram.pc = "sleep"
    /\ telegram' = [telegram EXCEPT !.pc = "poll"]
    /\ OnlyTelegram

\* a quiet or a verbose notifier; nothing else of the program runs
InitNotify ==
    /\ InitCommon
    /\ telegram \in {TelegramInit(v) : v \in BOOLEAN}
    /\ orders = Book1
    /\ keepHistory = FALSE
    /\ dryRun = FALSE
    /\ canPurchase = [a \in QuoteAssets |-> TRUE]
    /\ canRedeem = [a \in QuoteAssets |-> TRUE]
    /\ spot = [a \in QuoteAssets |-> IF a = "USDT" THEN 40 ELSE 27]
    /\ savings = [a \in QuoteAssets |-> IF a = "USDT" THEN 25 ELSE 10]

NextNotify ==
    \/ \E t \in Triggers : EnqueueMessage(t)
    \/ Poll
    \/ SendMessage
    \/ WorkerSleeps

SpecNotify == InitNotify /\ [][NextNotify]_vars

-----------------------------------------------------------------------------
(* The user data stream and its callback *)

\* __handle_event: the callback of start_user_socket, called with one event
HandleEvent ==
    /\ stream.received < MaxEvents
    /\ \E event \in StreamEvents :
          LET h == IF event.e = "executionReport"
                   THEN handle_order_update_event(event)
                   ELSE [reevaluations |-> <<>>, logged |-> "none"]
          IN stream' = [received |-> stream.received + 1, event |-> event,
                        reevaluations |-> h.reevaluations, logged |-> h.logged]
    /\ UNCHANGED <<spot, savings, canPurchase, canRedeem, orders, keepHistory, symbol_price,
                   telegram, table, failures, mutex, dryRun, pc, loc, notes, calls, prev,
                   mon>>

SpecStream == Init /\ [][HandleEvent]_vars

-----------------------------------------------------------------------------
(* Properties *)

InGuard == {t \in Threads : pc[t] \in Guarded}

BoundaryErrors == {"error_symbol", "error_all"}

CountKind(ms, kinds) == Cardinality({i \in DOMAIN ms : ms[i].k \in kinds})

CallsFor(cs, a) == {i \in DOMAIN cs : cs[i].a = a}

\* C1: at most one thread is between acquire() and release() of
\* reevaluate_symbol / rebalance_all_symbols at any time; a caller that finds
\* the permit taken stays at acquire() until it is released.
C1_OneThreadInGuard == Cardinality(InGuard) <= 1

\* the scheduler inside the guarded section, the order stream and the
\* /rebalance command both waiting at acquire()
C1_Witness ==
    /\ pc["sched"] \in Guarded
    /\ pc["event"] = "acquire"
    /\ pc["manual"] = "acquire"
    /\ mutex = 0

\* what a single call of rebalance_all_symbols leaves in the table: one row
\* per active, non-excluded symbol, holding its projected next order cost
SerialTable(book) ==
    {Row(sym, calculate_next_order_value(sym, get_current_deal_orders(book[sym])).cost,
         get_quote_asset_from_symbol(sym)) :
        sym \in Range(filter_excluded(get_symbols_by_client_order_id(book)))}

BothReturned ==
    /\ pc["sched"] = "idle" /\ ~prev["sched"].err
    /\ pc["manual"] = "idle" /\ ~prev["manual"].err

\* C2: when two calls of rebalance_all_symbols made at the same time over
\* unchanged orders have both returned, the Asset State Table is the table a
\* single call leaves: every symbol's row once, none missing.
C2_TableAsSerial == BothReturned => table = SerialTable(orders)

\* both calls returned, rows of two quote assets in the table
C2_Witness ==
    /\ BothReturned
    /\ {r.quote_asset : r \in table} = QuoteAssets
    /\ Cardinality(table) = 3

\* C3: the permit count is 1 whenever no thread is inside the guarded
\* section, whichever way the last thread left it, and is never above 1.
C3_PermitRestored ==
    /\ mutex \in {0, 1}
    /\ mutex = 1 - Cardinality(InGuard)

\* a call that raised is at its finally block while another caller waits
C3_Witness ==
    \E t \in Triggers :
        /\ pc[t] = "release"
        /\ loc[t].err
        /\ mutex = 0
        /\ \E u \in Triggers \ {t} : pc[u] = "acquire"

\* C4: an error raised inside the guarded section ends the computation
\* there (it is not resumed or run again), exactly one error notification
\* is enqueued for it at the guard boundary, and a call that did not raise
\* enqueues none.
C4_ErrorCaughtAtGuard ==
    \A t \in Threads :
        /\ loc[t].err => pc[t] \in {"except", "release"}
        /\ CountKind(notes[t], BoundaryErrors)
             = (IF pc[t] = "release" /\ loc[t].err THEN 1 ELSE 0)

\* a full-universe call raised after a transfer of its first quote asset
C4_Witness ==
    \E t \in Triggers :
        /\ pc[t] = "release"
        /\ loc[t].err
        /\ Len(calls[t]) > 0
        /\ notes[t][Len(notes[t])].k = "error_all"

ThreadMoved(t) == <<pc[t], loc[t], notes[t], calls[t]>>' # <<pc[t], loc[t], notes[t], calls[t]>>

\* C5: every step that changes the Asset State Table or the Failure Set is
\* taken by a thread that holds the guard permit.
C5_MutationUnderGuard ==
    [][(table' # table \/ failures' # failures)
         => \E t \in Threads : pc[t] \in Guarded /\ ThreadMoved(t)]_vars

\* C6: a tick in which a member of the Failure Set fails the purchasable or
\* the redeemable check removes no member and triggers no rebalance.
C6_IneligibleTickKeepsSet ==
    mon.bad =>
        /\ ~mon.cleared
        /\ pc[R] \notin Guarded \cup {"acquire"}
        /\ mon.set0 \subseteq failures

\* a tick over {A, B}: A passed both checks, B did not, the tick is over
C6_Witness ==
    /\ pc[R] = "mon_sleep"
    /\ mon.bad
    /\ Cardinality(mon.seen) = 2
    /\ mon.set0 = QuoteAssets
    /\ failures = QuoteAssets

TickEnds == pc[R] \in {"mon_next", "mon_decide"} /\ pc'[R] \in {"acquire", "mon_sleep", "dead"}

\* C7: a tick clears the Failure Set and starts a rebalance if and only if
\* the set it examined is non-empty and every member passed both checks.
C7_ClearIffAllEligible ==
    [][TickEnds =>
        ((pc'[R] = "acquire" /\ failures' = {})
           <=> (mon.set0 # {} /\ mon.seen = mon.set0 /\ ~mon.bad))]_vars

SuccessfulBefore(t, a) ==
    \E i \in DOMAIN prev[t].calls : prev[t].calls[i].a = a /\ prev[t].calls[i].ok

\* the previous call's transfer moved everything that call computed
FullTransferBefore(t, a) ==
    \E i \in DOMAIN prev[t].calls :
        /\ prev[t].calls[i].a = a
        /\ prev[t].calls[i].ok
        /\ \E y \in prev[t].deltas : y.a = a /\ prev[t].calls[i].n = Abs(y.d)

\* C8 as stated: after a call that made a successful transfer for a quote
\* asset, the next call over unchanged orders and balances computes a delta
\* of 0 for it and makes no subscribe or redeem call.
C8_Idempotent ==
    \A t \in Threads : \A x \in loc[t].deltas :
        SuccessfulBefore(t, x.a) => (x.d = 0 /\ CallsFor(calls[t], x.a) = {})

\* C8 amended: after a call that made a successful transfer for a quote
\* asset, the next call over unchanged orders and balances makes no
\* subscribe or redeem call for it, and computes a delta of 0 when the
\* transfer moved the whole amount (it was not capped to the savings held).
C8_IdempotentUnlessCapped ==
    \A t \in Threads : \A x \in loc[t].deltas :
        SuccessfulBefore(t, x.a) =>
            /\ CallsFor(calls[t], x.a) = {}
            /\ FullTransferBefore(t, x.a) => x.d = 0

\* the second call finds USDT balanced to the rounding: a delta of 0 with
\* the spot balance off the requirement
C8_Witness ==
    /\ pc["sched"] = "release"
    /\ ~loc["sched"].err
    /\ FullTransferBefore("sched", "USDT")
    /\ [a |-> "USDT", d |-> 0] \in loc["sched"].deltas
    /\ spot["USDT"] # sum_next_orders(table, "USDT")

NewDeltas(t) == loc'[t].deltas \ loc[t].deltas

\* C9: a surplus below the asset's minimum purchase amount makes the
\* Executor issue no subscribe call and leave the Failure Set as it is,
\* whether the asset is purchasable or not.
C9_BelowMinimumSkips ==
    [][\A t \in Threads : \A x \in NewDeltas(t) :
          (pc[t] = "rqa_exec" /\ 0 < x.d
             /\ x.d < get_savings_min_purchase_amount_by_asset(x.a))
          => /\ failures' = failures
             /\ calls' = calls
             /\ <<spot, savings>>' = <<spot, savings>>
             /\ pc'[t] \notin {"subscribe_call", "redeem_call"}]_vars

\* the Executor has skipped a surplus below the minimum of an asset that is
\* not purchasable, and the asset is not in the Failure Set
C9_Witness ==
    \E t \in Threads : \E x \in loc[t].deltas :
        /\ 0 < x.d
        /\ x.d < get_savings_min_purchase_amount_by_asset(x.a)
        /\ ~canPurchase[x.a]
        /\ x.a \notin failures
        /\ notes[t] # <<>>
        /\ notes[t][Len(notes[t])] = Note("below_minimum", NoSym, x.a, x.d)

\* C10: a shortfall of an asset that is not redeemable makes the Executor
\* issue no redeem call, add the asset to the Failure Set and change no
\* balance.
C10_NotRedeemableDefers ==
    [][\A t \in Threads : \A x \in NewDeltas(t) :
          (pc[t] = "rqa_exec" /\ x.d < 0 /\ ~canRedeem[x.a])
          => /\ x.a \in failures'
             /\ calls' = calls
             /\ <<spot, savings>>' = <<spot, savings>>
             /\ pc'[t] \notin {"subscribe_call", "redeem_call"}]_vars

\* the Executor has deferred a shortfall of an asset that is not redeemable
C10_Witness ==
    \E t \in Threads : \E x \in loc[t].deltas :
        /\ x.d < 0
        /\ ~canRedeem[x.a]
        /\ x.a \in failures
        /\ CallsFor(calls[t], x.a) = {}
        /\ notes[t] # <<>>
        /\ notes[t][Len(notes[t])] = Note("redeem_unavailable", NoSym, x.a, 0)

\* C11: a surplus of at least the minimum purchase amount of an asset that
\* is not purchasable makes the Executor issue no subscribe call and add the
\* asset to the Failure Set; the Executor goes on to a subscribe call only
\* for an asset it found purchasable.
C11_NotPurchasableDefers ==
    [][\A t \in Threads : \A x \in NewDeltas(t) :
          pc[t] = "rqa_exec" =>
            /\ (x.d >= get_savings_min_purchase_amount_by_asset(x.a)
                  /\ ~canPurchase[x.a])
               => /\ x.a \in failures'
                  /\ calls' = calls
                  /\ <<spot, savings>>' = <<spot, savings>>
                  /\ pc'[t] \notin {"subscribe_call", "redeem_call"}
            /\ pc'[t] = "subscribe_call" => canPurchase[x.a]]_vars

\* the Executor has deferred a surplus above the minimum of an asset that is
\* not purchasable
C11_Witness ==
    \E t \in Threads : \E x \in loc[t].deltas :
        /\ x.d >= get_savings_min_purchase_amount_by_asset(x.a)
        /\ ~canPurchase[x.a]
        /\ x.a \in failures
        /\ CallsFor(calls[t], x.a) = {}
        /\ notes[t] # <<>>
        /\ notes[t][Len(notes[t])] = Note("purchase_unavailable", NoSym, x.a, 0)

TransferErrors == {"error_redeem", "error_subscribe"}

\* C12: the Executor makes at most one subscribe-or-redeem call for a quote
\* asset in a call; when the exchange call raises, one error notification
\* for the asset is enqueued and the asset is in the Failure Set.
C12_TransferErrorCaught ==
    \A t \in Threads :
        /\ \A a \in QuoteAssets : Cardinality(CallsFor(calls[t], a)) <= 1
        /\ \A i \in DOMAIN calls[t] :
              ~calls[t][i].ok =>
                /\ calls[t][i].a \in failures
                /\ Cardinality({j \in DOMAIN notes[t] :
                                   /\ notes[t][j].k \in TransferErrors
                                   /\ notes[t][j].a = calls[t][i].a}) = 1
        /\ CountKind(notes[t], TransferErrors)
             = Cardinality({i \in DOMAIN calls[t] : ~calls[t][i].ok})

\* a call in which the redeem of one asset and the subscribe of the other
\* both raised, and the call went on to its end
C12_Witness ==
    /\ pc["sched"] = "release"
    /\ ~loc["sched"].err
    /\ Len(calls["sched"]) = 2
    /\ \A i \in DOMAIN calls["sched"] : ~calls["sched"][i].ok
    /\ {calls["sched"][i].op : i \in DOMAIN calls["sched"]} = {"redeem", "subscribe"}
    /\ failures = QuoteAssets

Min(a, b) == IF a < b THEN a ELSE b

\* C13: the amount passed to redeem is min(|delta|, savings available): it
\* never exceeds the savings held; when the savings hold less than |delta|
\* the partial-coverage notification was enqueued and a successful
\* redemption empties the savings.
C13_RedeemCapped ==
    [][\A t \in Threads :
          (pc[t] = "redeem_call" /\ calls'[t] # calls[t]) =>
            LET c == calls'[t][Len(calls'[t])]
                q == loc[t].q
            IN \E x \in loc[t].deltas :
                 /\ x.a = q /\ x.d < 0
                 /\ c.op = "redeem" /\ c.a = q
                 /\ c.n = Min(Abs(x.d), savings[q])
                 /\ c.n <= savings[q]
                 /\ savings[q] < Abs(x.d) =>
                      /\ \E j \in DOMAIN notes[t] :
                            notes[t][j] = Note("not_enough", NoSym, q, savings[q])
                      /\ c.ok => savings'[q] = 0]_vars

\* a shortfall larger than the savings: all of them were redeemed
C13_Witness ==
    \E t \in Threads : \E x \in loc[t].deltas :
        /\ x.d < 0
        /\ savings[x.a] = 0
        /\ \E i \in DOMAIN calls[t] :
              /\ calls[t][i] = ExchangeCall("redeem", x.a, calls[t][i].n, TRUE)
              /\ calls[t][i].n > 0
              /\ calls[t][i].n < Abs(x.d)
        /\ \E j \in DOMAIN notes[t] : notes[t][j].k = "not_enough"

\* projections 10, 10 and 30 of one quote asset
ExampleTable ==
    {Row(ETHUSDT, 10, "USDT"), Row(BNBUSDT, 10, "USDT"), Row(ADAUSDT, 30, "USDT")}

\* the step of __reevaluate_symbol that found the deal's safety order open
\* and returned from the coverage test
OpenDealEvaluated(t) ==
    /\ pc[t] = "rs"
    /\ pc'[t] \in {"rqa_start", "release"}
    /\ notes'[t] # <<>>
    /\ notes'[t][1].k = "reevaluating"

\* C14: in the reevaluation of a symbol whose deal has its safety order
\* open, the rebalance of its quote asset Q is started if and only if the
\* spot balance of Q is below max(sum of Q's rows x coverage, largest of Q's
\* rows); otherwise no transfer is made and the 'did not need rebalanced'
\* message is enqueued. Rows 10, 10, 30 with coverage 0.5: a balance of 20
\* starts it, a balance of 35 does not.
C14_CoverageTest ==
    /\ is_rebalance_required(ExampleTable, "USDT", 20)
    /\ ~is_rebalance_required(ExampleTable, "USDT", 35)
    /\ [][\A t \in Threads :
            OpenDealEvaluated(t) =>
              LET q == loc[t].sym[2]
                  rows == {r \in table' : r.quote_asset = q}
                  below == \/ spot[q] * 10 < SumSet(rows) * quote_coverage
                           \/ \E r \in rows : spot[q] < r.next_so
              IN /\ pc'[t] = "rqa_start" <=> below
                 /\ pc'[t] = "release" =>
                      /\ notes'[t][Len(notes'[t])] = Note("not_needed", NoSym, q, 0)
                      /\ calls' = calls
                      /\ <<spot, savings>>' = <<spot, savings>>]_vars

\* a reevaluation found the balance sufficient although it is below the sum
\* of the rows: it covers the largest row and the coverage share of the sum
C14_Witness ==
    /\ pc["event"] = "release"
    /\ ~loc["event"].err
    /\ notes["event"] # <<>>
    /\ notes["event"][Len(notes["event"])].k = "not_needed"
    /\ LET q == loc["event"].sym[2]
       IN /\ Cardinality({r \in table : r.quote_asset = q}) >= 2
          /\ spot[q] < sum_next_orders(table, q)

-----------------------------------------------------------------------------
(* C15 *)

\* the symbols with an open order of the DCA bot, less the excluded ones
Universe ==
    {s \in Symbols \ excluded_symbols :
        \E i \in DOMAIN orders[s] :
            orders[s][i].status = "NEW" /\ orders[s][i].order_id[1] = "d"}

\* the projections of the Universe's symbols of one quote asset, computed
\* from the order histories as they are now
FreshRows(q) ==
    {Row(s, calculate_next_order_value(s, get_current_deal_orders(orders[s])).cost, q) :
        s \in {u \in Universe : u[2] = q}}

\* a thread leaves the Executor's entry during a full-universe pass
FullPassExecutor(t) ==
    /\ pc[t] = "rqa_exec"
    /\ pc'[t] \notin {"rqa_exec", "except"}
    /\ ~loc[t].single

\* C15: a full-universe pass invokes the Executor exactly once for each quote
\* asset of the active, non-excluded symbols, whatever the coverage test
\* would say, and the required balance it is given is the sum of the
\* projections recomputed in that pass from the present order histories.
C15_FullPassExecutesEveryAsset ==
    /\ [][\A t \in Threads :
            FullPassExecutor(t) =>
              \E x \in NewDeltas(t) :
                 /\ NewDeltas(t) = {x}
                 /\ x.a \notin {y.a : y \in loc[t].deltas}
                 /\ x.a \in {u[2] : u \in Universe}
                 /\ x.d = Round(spot[x.a] - SumSet(FreshRows(x.a)),
                                IF x.a = "USDT" THEN 0 ELSE 1)]_vars
    /\ [](\A t \in {"sched", "manual"} :
            (pc[t] = "release" /\ ~loc[t].err)
            => {x.a : x \in loc[t].deltas} = {u[2] : u \in Universe})

\* a full pass has ended without error over a book with an excluded symbol
\* active: both quote assets have been through the Executor, one of them
\* although the coverage test would not have asked for it
C15_Witness ==
    /\ pc["sched"] = "release" /\ ~loc["sched"].err
    /\ {x.a : x \in loc["sched"].deltas} = QuoteAssets
    /\ \E s \in excluded_symbols : \E i \in DOMAIN orders[s] : orders[s][i].status = "NEW"
    /\ \E x \in loc["sched"].deltas : x.d > 0

-----------------------------------------------------------------------------
(* C16 *)

\* the cases in which a symbol has no projection: its history holds no BUY
\* order NEW or FILLED, or its current deal is not safety-order-open
NoProjection(s) ==
    \/ deal_orders_raise(orders[s])
    \/ ~is_safety_order_open(get_current_deal_orders(orders[s]))

\* the symbols of a quote-asset group of the full-universe pass
Group(q) == {u \in Universe : u[2] = q}

\* C16: in a full-universe pass, a quote asset one of whose symbols has no
\* projection does not reach the Executor, and a pass that ends has put
\* every such quote asset in the Failure Set.
C16_SentinelSkipsAsset ==
    /\ [][\A t \in Threads :
            (pc[t] = "rqa_sym" /\ pc'[t] = "rqa_exec" /\ ~loc[t].single)
            => \A s \in Group(loc[t].q) : ~NoProjection(s)]_vars
    /\ [](\A t \in {"sched", "manual"} :
            (pc[t] = "release" /\ ~loc[t].err)
            => \A q \in QuoteAssets :
                  (\E s \in Group(q) : NoProjection(s)) => q \in failures)

-----------------------------------------------------------------------------
(* C17 *)

\* the deal order list __reevaluate_symbol hands to __is_safety_order_open
CurrentDealOrders(t) ==
    LET fetched == get_current_deal_orders(orders[loc[t].sym])
    IN IF loc[t].ev # NoOrder THEN upsert_order_to_orders(loc[t].ev, fetched)
       ELSE fetched

\* a reevaluation reads its deal order list and says which branch it takes
DealJudged(t) ==
    /\ pc[t] = "rs"
    /\ Len(notes'[t]) > Len(notes[t])

HasStatus(list, status) == \E i \in DOMAIN list : list[i].status = status

\* C17: is_safety_order_open is true of a deal order list exactly when the
\* list holds at least one FILLED order and at least one NEW order; it is
\* false of the empty list, of a list of FILLED orders only and of a list of
\* NEW orders only.
C17_OpenIffFilledAndNew ==
    /\ ~is_safety_order_open(<<>>)
    /\ [][\A t \in Threads :
            DealJudged(t) =>
              LET list == CurrentDealOrders(t)
                  first == notes'[t][Len(notes[t]) + 1].k
              IN /\ first \in {"reevaluating", "not_open"}
                 /\ first = "reevaluating"
                      <=> (HasStatus(list, "FILLED") /\ HasStatus(list, "NEW"))]_vars

\* a reevaluation of ETHUSDT has found the safety order open, the history
\* holding a FILLED and a NEW BUY order
C17_Witness ==
    /\ pc["event"] \in {"rqa_start", "release"}
    /\ ~loc["event"].err
    /\ notes["event"][1] = Note("reevaluating", ETHUSDT, "", 0)
    /\ \E i, j \in DOMAIN orders[ETHUSDT] :
          /\ orders[ETHUSDT][i].status = "FILLED" /\ orders[ETHUSDT][i].side = "BUY"
          /\ orders[ETHUSDT][j].status = "NEW" /\ orders[ETHUSDT][j].side = "BUY"

-----------------------------------------------------------------------------
(* C18 *)

\* the NEW orders of a deal order list that no other NEW order of it follows
OpenOrders(list) ==
    {list[i] : i \in {j \in DOMAIN list :
                        /\ list[j].status = "NEW"
                        /\ \A k \in DOMAIN list :
                              list[k].status = "NEW"
                              => list[k].timestamp <= list[j].timestamp}}

\* notional x scale + price x step size, in tenths
ExpectedCost(o, sym) ==
    (o.price * o.quantity) * dca_volume_scale + o.price * get_symbol_step_size(sym)

RowOf(tab, sym) == {r.next_so : r \in {x \in tab : x.symbol = sym}}

\* C18: the cost projected for a safety-order-open deal is the quote notional
\* of the deal's NEW order times the volume scale factor plus the order's
\* price times the symbol's step size, in a single-symbol reevaluation and
\* in a recomputation alike.
C18_ProjectedCost ==
    [][\A t \in Threads :
          /\ (DealJudged(t) /\ is_safety_order_open(CurrentDealOrders(t)))
             => \E o \in OpenOrders(CurrentDealOrders(t)) :
                   RowOf(table', loc[t].sym) = {ExpectedCost(o, loc[t].sym)}
          /\ (pc[t] = "rqa_sym" /\ pc'[t] \in {"rqa_sym", "rqa_exec"})
             => LET sym == Head(loc[t].qsyms)
                    list == get_current_deal_orders(orders[sym])
                IN is_safety_order_open(list)
                   => \E o \in OpenOrders(list) :
                         RowOf(table', sym) = {ExpectedCost(o, sym)}]_vars

\* a recomputation has projected ETHUSDT's open deal: the row holds the cost
\* of a NEW BUY order of the history, step-size buffer included
C18_Witness ==
    /\ pc["event"] = "rqa_exec"
    /\ \E i, j \in DOMAIN orders[ETHUSDT] :
          /\ orders[ETHUSDT][i].status = "FILLED" /\ orders[ETHUSDT][i].side = "BUY"
          /\ orders[ETHUSDT][j].status = "NEW" /\ orders[ETHUSDT][j].side = "BUY"
          /\ get_deal_id(orders[ETHUSDT][i]) = get_deal_id(orders[ETHUSDT][j])
          /\ RowOf(table, ETHUSDT) = {ExpectedCost(orders[ETHUSDT][j], ETHUSDT)}

-----------------------------------------------------------------------------
(* C19 *)

\* C19: a deal that is not safety-order-open gets no cost other than 0,
\* whether its symbol is reevaluated alone or recomputed with its quote
\* asset's group: after the step the symbol's row, if there is one, is 0.
C19_NotOpenProjectsZero ==
    [][\A t \in Threads :
          /\ (DealJudged(t) /\ ~is_safety_order_open(CurrentDealOrders(t)))
             => RowOf(table', loc[t].sym) \subseteq {0}
          /\ (pc[t] = "rqa_sym" /\ pc'[t] \in {"rqa_sym", "rqa_exec"})
             => LET sym == Head(loc[t].qsyms)
                IN ~is_safety_order_open(get_current_deal_orders(orders[sym]))
                   => RowOf(table', sym) \subseteq {0}]_vars

-----------------------------------------------------------------------------
(* C20 *)

\* the BUY orders of a history with status NEW or FILLED
Candidates(h) ==
    {h[i] : i \in {j \in DOMAIN h : h[j].side = "BUY" /\ h[j].status \in {"NEW", "FILLED"}}}

RECURSIVE NewestFirst(_)
\* a set of orders as a sequence, by timestamp descending
NewestFirst(S) ==
    IF S = {} THEN <<>>
    ELSE LET o == CHOOSE x \in S : \A y \in S : y.timestamp <= x.timestamp
         IN <<o>> \o NewestFirst(S \ {o})

\* the longest prefix of s whose orders have the deal id of s[1]
MaximalPrefix(s) ==
    LET same(k) == \A i \in 1..k : get_deal_id(s[i]) = get_deal_id(s[1])
        n == CHOOSE k \in 1..Len(s) : same(k) /\ (k < Len(s) => ~same(k + 1))
    IN SubSeq(s, 1, n)

\* C20: the deal order list a reevaluation reconstructs from a history is
\* the maximal prefix, sharing the head order's deal id, of the history's
\* BUY orders with status NEW or FILLED taken newest first; every order of
\* it has the head's deal id.
C20_MaximalPrefix ==
    [][\A t \in Threads :
          (pc[t] = "rs" /\ pc'[t] # "rs" /\ Candidates(orders[loc[t].sym]) # {})
          => LET got == get_current_deal_orders(orders[loc[t].sym])
             IN /\ got = MaximalPrefix(NewestFirst(Candidates(orders[loc[t].sym])))
                /\ \A i \in DOMAIN got : get_deal_id(got[i]) = get_deal_id(got[1])]_vars

-----------------------------------------------------------------------------
(* C21 *)

\* a reevaluation leaves its first step with a deal order list fetched
DealFetched(t) ==
    /\ pc[t] = "rs"
    /\ pc'[t] # "rs"
    /\ loc[t].ev # NoOrder
    /\ Candidates(orders[loc[t].sym]) # {}

NewestFirstOrdered(list) ==
    \A i, j \in DOMAIN list : i < j => list[i].timestamp >= list[j].timestamp

-----------------------------------------------------------------------------
(* C22 *)

\* C22: in a full-universe pass, a symbol whose history holds no NEW order,
\* or no BUY order NEW or FILLED at all, does not abort the batch: no step of
\* the pass at a symbol ends in the guard's exception handler on account of
\* the symbol's order data.
C22_BatchNeverAborted ==
    [][\A t \in {"sched", "manual"} :
          pc[t] = "rqa_sym" => loc'[t].ex # "IndexError"]_vars

-----------------------------------------------------------------------------
(* C23 *)

\* C23: when a full-universe pass completes, the Asset State Table holds
\* exactly one row for each active, non-excluded symbol, carrying the
\* projection of that pass, and no other row.
C23_TableNeverHistorical ==
    \A t \in {"sched", "manual"} :
       (pc[t] = "release" /\ ~loc[t].err)
       => table = UNION {FreshRows(q) : q \in QuoteAssets}

-----------------------------------------------------------------------------
(* C24 *)

\* max(2 + floor(log10(|price|)), 0): floor(log10(x)) is the e with
\* 10^e <= x < 10^(e+1); 2 when the price query raises or the price is 0
ExpectedPrecision(asset) ==
    IF asset = "USDT" THEN 2
    ELSE IF symbol_price[asset].raises \/ symbol_price[asset].value = 0 THEN 2
    ELSE LET x == Abs(symbol_price[asset].value)
             e == CHOOSE k \in (0 - PriceDigits)..12 :
                     /\ Pow10(k + PriceDigits) <= x
                     /\ x < Pow10(k + PriceDigits + 1)
         IN IF 2 + e < 0 THEN 0 ELSE 2 + e

MovedKinds == {"moved_to_spot", "moved_to_savings"}

\* C24: the precision the Executor gets for its asset is
\* max(2 + floor(log10(|price|)), 0) of the asset's price in USDT, 2 for
\* USDT itself, never negative, and 2 when the price query raises or the
\* price is 0; the amount its transfer message names is rounded to it.
C24_AssetPrecision ==
    [][\A t \in Threads :
          (pc[t] \in {"redeem_call", "subscribe_call"} /\ Len(notes'[t]) > Len(notes[t]))
          => LET q == loc[t].q
                 last == notes'[t][Len(notes'[t])]
             IN /\ get_asset_precision(q) = ExpectedPrecision(q)
                /\ get_asset_precision(q) >= 0
                /\ last.k \in MovedKinds
                     => last.n = Round(loc[t].asked, ExpectedPrecision(q))]_vars

\* BTC costs 0.001 USDT, its precision is 0: a transfer of BTC has been
\* reported with its amount rounded to a whole number
C24_Witness ==
    /\ symbol_price["BTC"] = Quote(FALSE, 1)
    /\ \E t \in {"sched", "manual"} :
          /\ \E i \in DOMAIN notes[t] :
                /\ notes[t][i].k \in MovedKinds
                /\ notes[t][i].a = "BTC"
                /\ notes[t][i].n % 10 = 0
          /\ \E j \in DOMAIN calls[t] : calls[t][j].a = "BTC" /\ calls[t][j].n % 10 # 0

-----------------------------------------------------------------------------
(* C25 *)

\* C25: messages are delivered in the order they were enqueued and none
\* twice, whatever is enqueued while a rate-limited message waits for its
\* retry: a message put back after RetryAfter is the next the worker takes.
C25_DeliveredInOrder ==
    /\ \A i, j \in DOMAIN telegram.delivered :
          i < j => telegram.delivered[i].id < telegram.delivered[j].id
    /\ (telegram.limited /\ telegram.pc \in {"sleep", "poll"})
        => /\ telegram.message_queue # <<>>
           /\ \A i \in DOMAIN telegram.message_queue :
                 Head(telegram.message_queue).id <= telegram.message_queue[i].id
           /\ \A i \in DOMAIN telegram.delivered :
                 telegram.delivered[i].id < Head(telegram.message_queue).id

\* message 1 was delivered; message 2 was rate-limited and waits for its
\* retry at the front of the queue, before the messages enqueued after it
C25_Witness ==
    /\ telegram.limited
    /\ telegram.pc = "poll"
    /\ Len(telegram.delivered) = 1 /\ telegram.delivered[1].id = 1
    /\ Len(telegram.message_queue) >= 2
    /\ Head(telegram.message_queue).id = 2

-----------------------------------------------------------------------------
(* C26 *)

\* the messages thread t enqueues in the step
NewNotes(t) == SubSeq(notes'[t], Len(notes[t]) + 1, Len(notes'[t]))

\* C26: every path through the Executor enqueues a notification of its
\* outcome: a step that ends the Executor says so in its last message, a
\* subscribe or redeem call is made only in a step that enqueues one, and
\* no balance moves in a step without a message.
C26_NothingSilent ==
    [][/\ \A t \in Threads :
            /\ (pc[t] = "rqa_exec" /\ pc'[t] \in {"rqa_asset", "release"})
               => /\ NewNotes(t) # <<>>
                  /\ NewNotes(t)[Len(NewNotes(t))].k
                        \in {"no_rebalancing", "below_minimum", "purchase_unavailable",
                             "redeem_unavailable"}
            /\ (pc[t] \in {"redeem_call", "subscribe_call"} /\ pc'[t] # pc[t])
               => /\ NewNotes(t) # <<>>
                  /\ NewNotes(t)[Len(NewNotes(t))].k
                        \in {"moved_to_spot", "moved_to_savings", "error_redeem",
                             "error_subscribe"}
            /\ calls'[t] # calls[t] /\ calls'[t] # <<>> => NewNotes(t) # <<>>
       /\ <<spot, savings>>' # <<spot, savings>>
            => \E t \in Threads :
                  /\ Len(notes'[t]) > Len(notes[t])
                  /\ notes'[t][Len(notes'[t])].k \in {"moved_to_spot", "moved_to_savings"}]_vars

\* a pass has ended in which one quote asset needed nothing and the other
\* was moved: both outcomes are among the pass's messages
C26_Witness ==
    /\ pc["sched"] = "release" /\ ~loc["sched"].err
    /\ \E x \in loc["sched"].deltas : x.d = 0
    /\ calls["sched"] # <<>>
    /\ \E i, j \in DOMAIN notes["sched"] :
          /\ notes["sched"][i].k = "no_rebalancing"
          /\ notes["sched"][j].k \in {"moved_to_spot", "moved_to_savings"}

-----------------------------------------------------------------------------
(* C27 *)

\* C27: an asset added to the Failure Set by an Executor while a tick of the
\* recovery loop is iterating over the set costs at most one tick: the loop
\* goes on; its thread does not end.
C27_LoopSurvivesAddition ==
    [][(pc[R] = "mon_next" /\ Cardinality(failures) # mon.size)
         => pc'[R] # "dead"]_vars

-----------------------------------------------------------------------------
(* C28 *)

\* C28: the Failure Set holds the quote assets whose most recent Executor
\* attempt failed: an asset whose transfer has just succeeded in the pass
\* that is ending is not a member.
C28_MembersFailedLast ==
    \A t \in Threads :
       pc[t] = "release"
       => \A i \in DOMAIN calls[t] : calls[t][i].ok => calls[t][i].a \notin failures

-----------------------------------------------------------------------------
(* C29 *)

\* C29: an error raised inside the Executor, the queries it makes before the
\* transfer call included, puts the asset being rebalanced in the Failure
\* Set; an error raised before the Executor leaves the Failure Set unchanged.
C29_ExecutorErrorsRecorded ==
    [][\A t \in Threads :
          (pc[t] # "except" /\ pc'[t] = "except")
          => IF loc'[t].frame = "executor"
             THEN loc[t].q \in failures'
             ELSE failures' = failures]_vars

-----------------------------------------------------------------------------
(* C30 *)

\* the order stream's call is past its decision that the balance is short
SingleShort ==
    \/ pc["event"] \in {"rqa_start", "rqa_asset", "rqa_sym", "rqa_exec",
                        "redeem_call", "subscribe_call"}
    \/ pc["event"] = "rs" /\ pc'["event"] = "rqa_start"

NewCalls(t) == SubSeq(calls'[t], Len(calls[t]) + 1, Len(calls'[t]))

\* C30: a single-symbol reevaluation that finds the balance of quote asset Q
\* short rebalances Q only: no subscribe or redeem is made for another quote
\* asset, and the rows and the Failure Set membership of every other quote
\* asset stay as they were.
C30_OnlyQTouched ==
    [][SingleShort
       => LET Q == get_quote_asset_from_symbol(loc["event"].sym)
          IN \A a \in QuoteAssets \ {Q} :
                /\ {r \in table' : r.quote_asset = a} = {r \in table : r.quote_asset = a}
                /\ (a \in failures') = (a \in failures)
                /\ \A i \in DOMAIN NewCalls("event") : NewCalls("event")[i].a # a]_vars

\* the order stream's call has redeemed USDT while BTC, whose row a full
\* pass computed, is in the Failure Set
C30_Witness ==
    /\ pc["event"] = "release" /\ ~loc["event"].err
    /\ \E i \in DOMAIN calls["event"] : calls["event"][i].a = "USDT" /\ calls["event"][i].ok
    /\ \E r \in table : r.quote_asset = "BTC"
    /\ "BTC" \in failures

-----------------------------------------------------------------------------
(* C31 *)

MembersOpen == \A a \in failures : canPurchase[a] /\ canRedeem[a]

\* the tick has cleared the Failure Set and its rebalance_all_symbols is
\* inside the guard
RetryRuns == mon.cleared /\ pc[R] = "rqa_start"

\* C31: when from some point on every member of the Failure Set stays
\* purchasable and redeemable, a non-empty Failure Set is eventually cleared
\* and a full-universe rebalance run by the recovery loop.
C31_RecoveryLive ==
    <>[]MembersOpen => [](failures # {} => <>RetryRuns)

-----------------------------------------------------------------------------
(* C32 *)

\* C32: no call asks for the permit while it holds it, a call that waits
\* for the permit goes nowhere but into the guarded section, and every call
\* that asks for the permit returns.
C32_NoDeadlock ==
    /\ [][\A t \in Triggers :
            /\ pc[t] \in Guarded => pc'[t] # "acquire"
            /\ pc[t] = "acquire" => pc'[t] \in Guarded \cup {"acquire"}]_vars
    /\ \A t \in Triggers : pc[t] = "acquire" ~> pc[t] = "idle"

\* the order stream's call is rebalancing its symbol's quote asset inside
\* the guard while the two other triggers wait for the permit
C32_Witness ==
    /\ pc["event"] = "rqa_exec" /\ loc["event"].single
    /\ pc["sched"] = "acquire" /\ pc["manual"] = "acquire"
    /\ mutex = 0

-----------------------------------------------------------------------------
(* C33 *)

\* C33: an executionReport event of the stream whose client order id is the
\* DCA bot's, whose side is BUY and whose status is NEW causes exactly one
\* reevaluate_symbol call, for its symbol and with its order; any other
\* event causes none.
C33_OneReevaluationPerNewBuy ==
    LET ev == stream.event
    IN stream.received > 0
       => IF /\ ev.e = "executionReport" /\ matches_order_id_regex(ev.c)
             /\ ev.S = "BUY" /\ ev.X = "NEW"
          THEN /\ Len(stream.reevaluations) = 1
               /\ stream.reevaluations[1].symbol = ev.s
               /\ stream.reevaluations[1].order_event.order_id = ev.c
          ELSE stream.reevaluations = <<>>

-----------------------------------------------------------------------------
(* C34 *)

\* C34: in dry-run mode no step makes a subscribe or a redeem call, and no
\* step changes a spot or a savings balance.
C34_DryRunMovesNothing ==
    [][dryRun => /\ \A t \in Threads : calls'[t] = <<>>
                 /\ spot' = spot
                 /\ savings' = savings]_vars

\* in dry-run mode a full pass found USDT short and BTC in surplus, and has
\* gone through the try block of the redemption and of the subscription
C34_Witness ==
    /\ dryRun
    /\ \E t \in {"sched", "manual"} :
          /\ pc[t] = "release" /\ ~loc[t].err
          /\ \E x, y \in loc[t].deltas : x.d < 0 /\ y.d > 0
          /\ Cardinality({i \in DOMAIN notes[t] : notes[t][i].k = "dry_run"}) = 2

-----------------------------------------------------------------------------
(* C35 *)

\* C35: the amount the Executor is about to pass to subscribe is at most
\* the spot balance the pass has read for that asset.
C35_SubscribeWithinSpot ==
    \A t \in Threads : pc[t] = "subscribe_call" => loc[t].qty <= spot[loc[t].q]

-----------------------------------------------------------------------------
(* C36 *)

\* C36: no excluded symbol has a row in the Asset State Table, whatever
\* calls have been made.
C36_NoExcludedRow == \A r \in table : r.symbol \notin excluded_symbols

(* C37 *)
\* C37: with a coverage factor of at most 1, a single-symbol reevaluation
\* that finds the balance short never subscribes funds into savings: the
\* order stream's call makes no subscribe call.
C37_ShortOnlyRedeems ==
    /\ quote_coverage <= 10
    /\ [][\A i \in DOMAIN NewCalls("event") :
             NewCalls("event")[i].op # "subscribe"]_vars

(* C38 *)
\* C38: the Failure Recovery Loop ticks for the whole life of the process: a
\* tick that is examining a member of the Failure Set (the set unchanged
\* since the tick began) never ends the loop, also when a purchasable or
\* redeemable query raises.
C38_LoopSurvivesQueryError ==
    [][(pc[R] = "mon_next" /\ Cardinality(failures) = mon.size
          /\ mon.seen # failures)
         => pc'[R] # "dead"]_vars

(* C39 *)
\* C39: outside dry-run mode, a 'Moved <amount> <asset>' message is enqueued
\* only in an Executor invocation that made a subscribe or redeem call which
\* succeeded, and the amount it names is the amount passed to that call.
C39_MovedNamesTheCall ==
    [][~dryRun =>
         \A t \in Threads : \A i \in DOMAIN NewNotes(t) :
            NewNotes(t)[i].k \in {"moved_to_spot", "moved_to_savings"} =>
               \E j \in DOMAIN NewCalls(t) :
                  /\ NewCalls(t)[j].ok
                  /\ NewCalls(t)[j].a = NewNotes(t)[i].a
                  /\ NewCalls(t)[j].n = NewNotes(t)[i].n]_vars

====
